---- MODULE Spec2Model ----
(***************************************************************************)
(* Model of the xsrf crate (src/lib.rs): CookieToken, RequestToken, their  *)
(* text encoding (base64 URL_SAFE, with padding) and the one-time-pad      *)
(* derivation / verification of request tokens.                            *)
(*                                                                         *)
(* A byte is a number in 0..255.  A byte array and a &str are sequences of *)
(* bytes (a &str is its UTF-8 bytes, as value.len() and the slicing in     *)
(* try_from see it).  A call that can panic returns a record whose tag is  *)
(* "Panic"; Ok and Err are tagged likewise.                                *)
(***************************************************************************)
EXTENDS Integers, Sequences, FiniteSets, TLC

\* const TOKEN_LEN: usize = 32;
TOKEN_LEN == 32
\* const ENCODED_LEN: usize = 44;
ENCODED_LEN == 44

(***************************************************************************)
(* base64::URL_SAFE: the URL-safe alphabet, padding on, trailing bits      *)
(* refused on decode.                                                      *)
(***************************************************************************)
\* '=' , the padding byte
PAD_BYTE == 61
\* the decode table's entry for a byte outside the alphabet
INVALID_VALUE == 255
\* decode works on chunks of 8 input bytes giving 6 output bytes
INPUT_CHUNK_LEN == 8
DECODED_CHUNK_LEN == 6
\* the fast loop writes 8 bytes per chunk, 2 more than it decodes
DECODED_CHUNK_SUFFIX == 2
\* the unrolled fast loop takes 4 chunks at a time
CHUNKS_PER_FAST_LOOP_BLOCK == 4

\* A-Z a-z 0-9 - _
ENCODE_TABLE ==
  [i \in 1..64 |-> IF i <= 26 THEN 64 + i
                   ELSE IF i <= 52 THEN 70 + i
                   ELSE IF i <= 62 THEN i - 5
                   ELSE IF i = 63 THEN 45 ELSE 95]

BC_pad == TRUE
BC_decode_allow_trailing_bits == FALSE

\* the 6-bit value of an input byte, or INVALID_VALUE
decode_value(b) ==
  IF b >= 65 /\ b <= 90 THEN b - 65
  ELSE IF b >= 97 /\ b <= 122 THEN b - 71
  ELSE IF b >= 48 /\ b <= 57 THEN b + 4
  ELSE IF b = 45 THEN 62
  ELSE IF b = 95 THEN 63
  ELSE INVALID_VALUE

\* the same as a table of 256 entries, entry b + 1 for byte b
DECODE_TABLE == [i \in 1..256 |-> decode_value(i - 1)]

decode_table(b) == DECODE_TABLE[b + 1]

\* [0; n]
Zeros(n) == [i \in 1..n |-> 0]

\* a ^ b, bit by bit
RECURSIVE XorBits(_, _)
XorBits(a, b) ==
  IF a = 0 THEN b
  ELSE IF b = 0 THEN a
  ELSE ((a + b) % 2) + 2 * XorBits(a \div 2, b \div 2)

\* the same on 4-bit halves, tabulated
NibbleXor == [a \in 0..15 |-> [b \in 0..15 |-> XorBits(a, b)]]

\* a ^ b on u8
BitXor(a, b) ==
  NibbleXor[a \div 16][b \div 16] * 16 + NibbleXor[a % 16][b % 16]

(***************************************************************************)
(* Encoding: 3 bytes give 4 symbols; a tail of 1 byte gives 2 symbols and  *)
(* a tail of 2 bytes gives 3; with padding on, '=' fills the last quad.    *)
(***************************************************************************)
ByteAt(bytes, k) == IF k <= Len(bytes) THEN bytes[k] ELSE 0

\* the j-th (0..3) 6-bit value of the group that starts at byte g (1-based)
Sextet(bytes, g, j) ==
  CASE j = 0 -> ByteAt(bytes, g) \div 4
    [] j = 1 -> (ByteAt(bytes, g) % 4) * 16 + ByteAt(bytes, g + 1) \div 16
    [] j = 2 -> (ByteAt(bytes, g + 1) % 16) * 4 + ByteAt(bytes, g + 2) \div 64
    [] j = 3 -> ByteAt(bytes, g + 2) % 64

encode_to_slice(bytes) ==
  LET rem == Len(bytes) % 3
      n   == (Len(bytes) \div 3) * 4 + (IF rem = 0 THEN 0 ELSE rem + 1)
  IN  [k \in 1..n |->
         ENCODE_TABLE[Sextet(bytes, ((k - 1) \div 4) * 3 + 1, (k - 1) % 4) + 1]]

add_padding(input_len) ==
  [i \in 1..((3 - (input_len % 3)) % 3) |-> PAD_BYTE]

\* the encoding without its padding (URL_SAFE_NO_PAD)
encode_config_no_pad(bytes) == encode_to_slice(bytes)

\* base64::encode_config(bytes, BC) / encode_config_buf(bytes, BC, &mut s)
encode_config(bytes) ==
  encode_to_slice(bytes) \o (IF BC_pad THEN add_padding(Len(bytes)) ELSE <<>>)

(***************************************************************************)
(* Decoding into a caller-supplied slice, base64::decode_config_slice.     *)
(* A result is Ok with the number of bytes written and the slice, Err, or  *)
(* Panic (an index past the end of the slice).                             *)
(***************************************************************************)
DecOk(n, out) == [tag |-> "Ok", len |-> n, out |-> out]
DecErr == [tag |-> "Err", len |-> 0, out |-> <<>>]
DecPanic == [tag |-> "Panic", len |-> 0, out |-> <<>>]

AnyInvalid(input, from, n) ==
  \E k \in from..(from + n - 1) : decode_table(input[k]) = INVALID_VALUE

\* the 3 bytes of the quad of symbols that starts at input[q], byte j (0..2)
QuadByte(input, q, j) ==
  LET acc == decode_table(input[q]) * 262144 + decode_table(input[q + 1]) * 4096
             + decode_table(input[q + 2]) * 64 + decode_table(input[q + 3])
  IN  CASE j = 0 -> acc \div 65536
        [] j = 1 -> (acc \div 256) % 256
        [] j = 2 -> acc % 256

\* the k-th (0-based) byte that the full chunks from the start of the input
\* decode to
ChunkByte(input, k) == QuadByte(input, 1 + (k \div 3) * 4, k % 3)

\* number of 8-byte chunks of the input, a partial last one included
num_chunks(input) == (Len(input) + INPUT_CHUNK_LEN - 1) \div INPUT_CHUNK_LEN

\* how much of the end of the input the fast loops leave to stages 3 and 4
trailing_bytes_to_skip(remainder_len) ==
  CASE remainder_len = 0 -> INPUT_CHUNK_LEN
    [] remainder_len = 2 -> INPUT_CHUNK_LEN + 2
    [] remainder_len = 3 -> INPUT_CHUNK_LEN + 3
    [] remainder_len = 4 -> INPUT_CHUNK_LEN + 4
    [] OTHER -> remainder_len

\* Stage 4: the last (possibly partial, possibly padded) chunk input[ii+1..],
\* the chunks before it having given output[0..oi].
\* Padding is refused in the first two places of a quad and before a symbol;
\* a last symbol with bits that fall outside the output is refused; each
\* output byte is stored through output[output_index], which panics past the
\* end of the slice.  (The two bytes the fast loops store after the six of a
\* chunk are overwritten by the chunks that follow.)
Stage4(input, out, ii, oi) ==
  LET n       == Len(input) - ii
      L(i)    == input[ii + 1 + i]
      isPad(i) == L(i) = PAD_BYTE
      bad     == \E i \in 0..(n - 1) :
                   \/ isPad(i) /\ i % 4 < 2
                   \/ ~isPad(i) /\ (\E j \in 0..(i - 1) : isPad(j))
                   \/ ~isPad(i) /\ decode_table(L(i)) = INVALID_VALUE
      morsels == Cardinality({i \in 0..(n - 1) : ~isPad(i)})
      ready   == CASE morsels = 0 -> 0
                   [] morsels = 2 -> 1
                   [] morsels = 3 -> 2
                   [] morsels = 4 -> 3
                   [] morsels = 6 -> 4
                   [] morsels = 7 -> 5
                   [] morsels = 8 -> 6
                   [] OTHER -> -1
      last_symbol == decode_table(L(morsels - 1))
      trailing == CASE morsels \in {2, 6} -> last_symbol % 16
                    [] morsels \in {3, 7} -> last_symbol % 4
                    [] OTHER -> 0
      \* the symbols of the last quads, the missing ones read as zero bits
      sym(q, j) == IF q + j < morsels THEN decode_table(L(q + j)) ELSE 0
      acc(q)  == sym(q, 0) * 262144 + sym(q, 1) * 4096 + sym(q, 2) * 64 + sym(q, 3)
      byte(k) == LET a == acc((k \div 3) * 4)
                 IN  CASE k % 3 = 0 -> a \div 65536
                       [] k % 3 = 1 -> (a \div 256) % 256
                       [] k % 3 = 2 -> a % 256
  IN  IF bad THEN DecErr
      ELSE IF ready < 0 THEN DecPanic
      ELSE IF ~BC_decode_allow_trailing_bits /\ trailing # 0 THEN DecErr
      ELSE IF oi + ready > Len(out) THEN DecPanic
      ELSE DecOk(oi + ready,
                 [k \in 1..Len(out) |->
                    IF k <= oi THEN ChunkByte(input, k - 1)
                    ELSE IF k <= oi + ready THEN byte(k - oi - 1)
                    ELSE out[k]])

\* Stage 3: every remaining chunk but the last, decoded precisely (6 bytes
\* written, no suffix)
RECURSIVE Stage3(_, _, _, _, _)
Stage3(input, out, ii, oi, remaining_chunks) ==
  IF remaining_chunks <= 1 THEN Stage4(input, out, ii, oi)
  ELSE IF ii + INPUT_CHUNK_LEN > Len(input) \/ oi + DECODED_CHUNK_LEN > Len(out)
       THEN DecPanic
  ELSE IF AnyInvalid(input, ii + 1, INPUT_CHUNK_LEN) THEN DecErr
  ELSE Stage3(input, out, ii + INPUT_CHUNK_LEN, oi + DECODED_CHUNK_LEN,
              remaining_chunks - 1)

\* Stage 2: one chunk at a time, 8 bytes written per chunk
RECURSIVE Stage2(_, _, _, _, _, _)
Stage2(input, out, ii, oi, remaining_chunks, fast_len) ==
  IF fast_len >= INPUT_CHUNK_LEN /\ ii < fast_len - INPUT_CHUNK_LEN
  THEN IF oi + DECODED_CHUNK_LEN + DECODED_CHUNK_SUFFIX > Len(out) THEN DecPanic
       ELSE IF AnyInvalid(input, ii + 1, INPUT_CHUNK_LEN) THEN DecErr
       ELSE Stage2(input, out, ii + INPUT_CHUNK_LEN, oi + DECODED_CHUNK_LEN,
                   remaining_chunks - 1, fast_len)
  ELSE Stage3(input, out, ii, oi, remaining_chunks)

\* Stage 1: blocks of 4 chunks (32 input bytes, 24 + 2 output bytes)
RECURSIVE Stage1(_, _, _, _, _, _)
Stage1(input, out, ii, oi, remaining_chunks, fast_len) ==
  LET INPUT_BLOCK_LEN == CHUNKS_PER_FAST_LOOP_BLOCK * INPUT_CHUNK_LEN
      DECODED_BLOCK_LEN ==
        CHUNKS_PER_FAST_LOOP_BLOCK * DECODED_CHUNK_LEN + DECODED_CHUNK_SUFFIX
  IN  IF fast_len >= INPUT_BLOCK_LEN /\ ii <= fast_len - INPUT_BLOCK_LEN
      THEN IF oi + DECODED_BLOCK_LEN > Len(out) THEN DecPanic
           ELSE IF AnyInvalid(input, ii + 1, INPUT_BLOCK_LEN) THEN DecErr
           ELSE Stage1(input, out, ii + INPUT_BLOCK_LEN,
                       oi + DECODED_BLOCK_LEN - DECODED_CHUNK_SUFFIX,
                       remaining_chunks - CHUNKS_PER_FAST_LOOP_BLOCK, fast_len)
      ELSE Stage2(input, out, ii, oi, remaining_chunks, fast_len)

decode_helper(input, out) ==
  LET remainder_len == Len(input) % INPUT_CHUNK_LEN
      skip == trailing_bytes_to_skip(remainder_len)
      fast_len == IF Len(input) > skip THEN Len(input) - skip ELSE 0
  IN  IF remainder_len \in {1, 5} THEN DecErr
      ELSE Stage1(input, out, 0, 0, num_chunks(input), fast_len)

\* base64::decode_config_slice(input, BC, &mut output)
decode_config_slice(input, output) == decode_helper(input, output)
(***************************************************************************)
(* Results.                                                                *)
(***************************************************************************)
Ok(v) == [tag |-> "Ok", err |-> "", val |-> v]
Err(e) == [tag |-> "Err", err |-> e, val |-> <<>>]
\* the call did not return: the thread panicked
Panicked == [tag |-> "Panic", err |-> "", val |-> <<>>]

InvalidToken == "InvalidToken"
TokenMismatch == "TokenMismatch"

(***************************************************************************)
(* A &str is valid UTF-8.  The model's strings hold ASCII and two-byte     *)
(* characters (a lead byte 0xC2..0xDF and one continuation 0x80..0xBF).    *)
(***************************************************************************)
IsContinuation(b) == b >= 128 /\ b < 192
IsLead2(b) == b >= 194 /\ b < 224

IsUtf8(s) ==
  \A k \in 1..Len(s) :
     \/ s[k] < 128
     \/ IsLead2(s[k]) /\ k < Len(s) /\ IsContinuation(s[k + 1])
     \/ IsContinuation(s[k]) /\ k > 1 /\ IsLead2(s[k - 1])

\* str::is_char_boundary(index), index 0-based
is_char_boundary(s, index) ==
  \/ index = 0
  \/ index = Len(s)
  \/ index < Len(s) /\ ~IsContinuation(s[index + 1])

(***************************************************************************)
(* xor_into, and the constant-time comparison of subtle::ConstantTimeEq    *)
(* for slices.                                                             *)
(***************************************************************************)
Min(a, b) == IF a < b THEN a ELSE b

\* xor_into with the loop stopping one byte short
xor_into_short(a, b, into) ==
  [k \in 1..Len(into) |->
     IF k < Min(Len(a), Len(b)) THEN BitXor(a[k], b[k]) ELSE into[k]]

\* a.iter().zip(b.iter()).enumerate().for_each(|(index, (a, b))| into[index] = a ^ b)
xor_into(a, b, into) ==
  [k \in 1..Len(into) |->
     IF k <= Min(Len(a), Len(b)) THEN BitXor(a[k], b[k]) ELSE into[k]]

\* the loop of ct_eq: x &= (a[k] == b[k]) for every k; ops counts the byte
\* comparisons made
RECURSIVE ct_eq_loop(_, _, _, _, _)
ct_eq_loop(a, b, k, x, ops) ==
  IF k > Len(a) THEN [eq |-> x = 1, ops |-> ops]
  ELSE ct_eq_loop(a, b, k + 1, IF a[k] = b[k] THEN x ELSE 0, ops + 1)

\* a comparison that returns at the first differing byte
RECURSIVE ct_eq_early_loop(_, _, _, _)
ct_eq_early_loop(a, b, k, ops) ==
  IF k > Len(a) THEN [eq |-> TRUE, ops |-> ops]
  ELSE IF a[k] # b[k] THEN [eq |-> FALSE, ops |-> ops + 1]
  ELSE ct_eq_early_loop(a, b, k + 1, ops + 1)

ct_eq_early_exit(a, b) ==
  IF Len(a) # Len(b) THEN [eq |-> FALSE, ops |-> 0]
  ELSE ct_eq_early_loop(a, b, 1, 0)

\* a comparison that leaves the last byte out
ct_eq_short(a, b) ==
  IF Len(a) # Len(b) THEN [eq |-> FALSE, ops |-> 0]
  ELSE ct_eq_loop(SubSeq(a, 1, Len(a) - 1), SubSeq(b, 1, Len(b) - 1), 1, 1, 0)

ct_eq(a, b) ==
  IF Len(a) # Len(b) THEN [eq |-> FALSE, ops |-> 0]
  ELSE ct_eq_loop(a, b, 1, 1, 0)

(***************************************************************************)
(* CookieToken                                                             *)
(***************************************************************************)
\* impl ToString for CookieToken
CookieToken_to_string(data) == encode_config(data)

\* impl TryFrom<&str> for CookieToken
CookieToken_try_from(value) ==
  IF Len(value) # ENCODED_LEN THEN Err(InvalidToken)
  ELSE LET r == decode_config_slice(value, Zeros(TOKEN_LEN))
       IN  CASE r.tag = "Panic" -> Panicked
             [] r.tag = "Err" -> Err(InvalidToken)
             [] OTHER -> Ok([data |-> r.out])

\* gen_req_token with the xor written over otp instead of into mask
gen_req_token_into_otp(data, otp) ==
  [otp |-> xor_into(otp, data, otp), mask |-> Zeros(TOKEN_LEN)]

\* CookieToken::gen_req_token, otp being what thread_rng().fill(&mut t.otp) drew
gen_req_token(data, otp) ==
  [otp |-> otp, mask |-> xor_into(otp, data, Zeros(TOKEN_LEN))]

\* verify_req_token comparing the mask itself, the xor with otp forgotten
verify_req_token_no_xor(data, token) ==
  LET c == ct_eq(token.mask, data)
  IN  [res |-> IF c.eq THEN Ok(<<>>) ELSE Err(TokenMismatch), work |-> c.ops]

\* CookieToken::verify_req_token, with the work of the comparison
verify_req_token_trace(data, token) ==
  LET expected == xor_into(token.otp, token.mask, Zeros(TOKEN_LEN))
      c == ct_eq(expected, data)
  IN  [res |-> IF c.eq THEN Ok(<<>>) ELSE Err(TokenMismatch), work |-> c.ops]

verify_req_token(data, token) == verify_req_token_trace(data, token).res

(***************************************************************************)
(* RequestToken                                                            *)
(***************************************************************************)
\* impl ToString for RequestToken
RequestToken_to_string(token) ==
  encode_config(token.otp) \o encode_config(token.mask)

\* try_from decoding the first half into both otp and mask
RequestToken_try_from_first_half(value) ==
  IF Len(value) # ENCODED_LEN * 2 THEN Err(InvalidToken)
  ELSE IF ~is_char_boundary(value, ENCODED_LEN) THEN Panicked
  ELSE LET r1 == decode_config_slice(SubSeq(value, 1, ENCODED_LEN), Zeros(TOKEN_LEN))
       IN  CASE r1.tag = "Panic" -> Panicked
             [] r1.tag = "Err" -> Err(InvalidToken)
             [] OTHER -> Ok([otp |-> r1.out, mask |-> r1.out])

\* impl TryFrom<&str> for RequestToken
RequestToken_try_from(value) ==
  IF Len(value) # ENCODED_LEN * 2 THEN Err(InvalidToken)
  ELSE IF ~is_char_boundary(value, ENCODED_LEN) THEN Panicked
  ELSE LET r1 == decode_config_slice(SubSeq(value, 1, ENCODED_LEN), Zeros(TOKEN_LEN))
           r2 == decode_config_slice(SubSeq(value, ENCODED_LEN + 1, Len(value)),
                                     Zeros(TOKEN_LEN))
       IN  CASE r1.tag = "Panic" -> Panicked
             [] r1.tag = "Err" -> Err(InvalidToken)
             [] r2.tag = "Panic" -> Panicked
             [] r2.tag = "Err" -> Err(InvalidToken)
             [] OTHER -> Ok([otp |-> r1.out, mask |-> r2.out])
(***************************************************************************)
(* The state machine.                                                      *)
(***************************************************************************)
\* the random source draws from MaxSeed + 1 / MaxOtpSeed + 1 byte patterns
MaxSeed == 1
MaxOtpSeed == 1
\* request tokens outstanding at once, verifications made in all, alterations
\* of a string in flight
MaxOutstanding == 2
MaxVerifies == 2
MaxEdits == 1

VARIABLES
  cookie,    \* CookieToken.data of the session
  created,   \* the bytes CookieToken::new() drew (never written again)
  tokens,    \* the RequestTokens minted so far, all outstanding
  uses,      \* uses[i]: how many times tokens[i] has been verified
  wire,      \* an encoded token in flight between server and client
  wireOf,    \* what was encoded into wire: 0 the cookie, i > 0 tokens[i], -1 nothing
  edits,     \* how many times wire was altered on the way
  last       \* the last call: its operation, input and outcome

vars == <<cookie, created, tokens, uses, wire, wireOf, edits, last>>

\* byte patterns standing for what thread_rng().fill() may draw
Fill(s) == [i \in 1..TOKEN_LEN |-> (s * (i * 37 + 11)) % 256]

\* session secrets: the patterns, two that differ from Fill(1) in one byte,
\* and all bits set
CookieSet ==
  {Fill(s) : s \in 0..MaxSeed}
    \cup {[Fill(1) EXCEPT ![TOKEN_LEN] = 3], [Fill(1) EXCEPT ![1] = 49]}
    \cup {[i \in 1..TOKEN_LEN |-> 255]}

\* one-time pads
OtpSet == {Fill(s + 3) : s \in 0..MaxOtpSeed}

NoToken == [otp |-> <<>>, mask |-> <<>>]

\* a call as `last` records it: src is the token (or 0, the cookie) it was
\* about, input the string or foreign secret it was given, edited how many
\* alterations that string had undergone, work the byte comparisons made
Call(op, src, token, input, edited, res, work) ==
  [op |-> op, src |-> src, token |-> token, input |-> input, edited |-> edited,
   res |-> res, work |-> work]

RECURSIVE Sum(_)
Sum(q) == IF q = <<>> THEN 0 ELSE Head(q) + Sum(Tail(q))

\* let ct = CookieToken::new();
Init ==
  /\ cookie \in CookieSet
  /\ created = cookie
  /\ tokens = <<>>
  /\ uses = <<>>
  /\ wire = <<>>
  /\ wireOf = -1
  /\ edits = 0
  /\ last = Call("new", 0, NoToken, <<>>, 0, Ok(<<>>), 0)

\* let rt = ct.gen_req_token();
GenReqToken(otp) ==
  /\ Len(tokens) < MaxOutstanding
  /\ LET t == gen_req_token(cookie, otp)
     IN  /\ tokens' = Append(tokens, t)
         /\ uses' = Append(uses, 0)
         /\ last' = Call("gen_req_token", Len(tokens) + 1, t, <<>>, 0, Ok(<<>>), 0)
  /\ UNCHANGED <<cookie, created, wire, wireOf, edits>>

\* ct.verify_req_token(rt) on an outstanding token
VerifyReqToken(i) ==
  /\ Sum(uses) < MaxVerifies
  /\ LET v == verify_req_token_trace(cookie, tokens[i])
     IN  last' = Call("verify_req_token", i, tokens[i], <<>>, 0, v.res, v.work)
  /\ uses' = [uses EXCEPT ![i] = @ + 1]
  /\ UNCHANGED <<cookie, created, tokens, wire, wireOf, edits>>

\* the same after both tokens went through to_string and try_from (the cookie
\* and the form field)
VerifyDecoded(i) ==
  /\ Sum(uses) < MaxVerifies
  /\ LET c == CookieToken_try_from(CookieToken_to_string(cookie))
         r == RequestToken_try_from(RequestToken_to_string(tokens[i]))
     IN  last' =
           IF c.tag # "Ok" THEN Call("verify_decoded", i, tokens[i], <<>>, 0, c, 0)
           ELSE IF r.tag # "Ok" THEN Call("verify_decoded", i, tokens[i], <<>>, 0, r, 0)
           ELSE LET v == verify_req_token_trace(c.val.data, r.val)
                IN  Call("verify_decoded", i, r.val, <<>>, 0, v.res, v.work)
  /\ uses' = [uses EXCEPT ![i] = @ + 1]
  /\ UNCHANGED <<cookie, created, tokens, wire, wireOf, edits>>

\* Calls take &self and share nothing else, so concurrent callers are any
\* interleaving of whole calls.
Next ==
  \/ \E otp \in OtpSet : GenReqToken(otp)
  \/ \E i \in 1..Len(tokens) : VerifyReqToken(i)
  \/ \E i \in 1..Len(tokens) : VerifyDecoded(i)

Spec == Init /\ [][Next]_vars

(***************************************************************************)
(* Forged tokens: one minted from another session's CookieToken, and one   *)
(* minted here with a single bit flipped on the way back.                  *)
(***************************************************************************)
RECURSIVE Pow2(_)
Pow2(n) == IF n = 0 THEN 1 ELSE 2 * Pow2(n - 1)

FlipBit(b, bit) ==
  IF (b \div Pow2(bit)) % 2 = 1 THEN b - Pow2(bit) ELSE b + Pow2(bit)

Tampered(t, field, k, bit) ==
  IF field = "otp" THEN [t EXCEPT !.otp[k] = FlipBit(@, bit)]
  ELSE [t EXCEPT !.mask[k] = FlipBit(@, bit)]

\* t1.verify_req_token(t2.gen_req_token()), t1 being this session's token
VerifyForeign(t2, otp) ==
  /\ last.op \in {"new", "gen_req_token"}
  /\ t2 # cookie
  /\ LET t == gen_req_token(t2, otp)
         v == verify_req_token_trace(cookie, t)
     IN  last' = Call("verify_foreign", 0, t, t2, 0, v.res, v.work)
  /\ UNCHANGED <<cookie, created, tokens, uses, wire, wireOf, edits>>

\* the token just handed out comes back with one bit of otp or mask flipped
VerifyTampered(field, k, bit) ==
  /\ last.op = "gen_req_token"
  /\ LET t == Tampered(last.token, field, k, bit)
         v == verify_req_token_trace(cookie, t)
     IN  last' = Call("verify_tampered", last.src, t, <<>>, 0, v.res, v.work)
  /\ UNCHANGED <<cookie, created, tokens, uses, wire, wireOf, edits>>

\* verify_req_token writes nothing, so a forged submission is tried against
\* the session as new() or gen_req_token() left it, one victim token at a time
NextForge ==
  \/ \E otp \in OtpSet : Len(tokens) = 0 /\ GenReqToken(otp)
  \/ \E i \in 1..Len(tokens) : VerifyReqToken(i)
  \/ \E t2 \in CookieSet, otp \in OtpSet : VerifyForeign(t2, otp)
  \/ \E field \in {"otp", "mask"}, k \in 1..TOKEN_LEN, bit \in 0..7 :
       VerifyTampered(field, k, bit)

SpecForge == Init /\ [][NextForge]_vars

(***************************************************************************)
(* Strings: a token is encoded and either decoder is applied to the string.*)
(***************************************************************************)
\* let s = ct.to_string();
CookieToString ==
  /\ wire' = CookieToken_to_string(cookie)
  /\ wireOf' = 0
  /\ edits' = 0
  /\ last' = Call("CookieToken::to_string", 0, NoToken, <<>>, 0, Ok(<<>>), 0)
  /\ UNCHANGED <<cookie, created, tokens, uses>>

\* let s = rt.to_string();
RequestToString(i) ==
  /\ wire' = RequestToken_to_string(tokens[i])
  /\ wireOf' = i
  /\ edits' = 0
  /\ last' = Call("RequestToken::to_string", i, tokens[i], <<>>, 0, Ok(<<>>), 0)
  /\ UNCHANGED <<cookie, created, tokens, uses>>

\* CookieToken::try_from(s)
CookieTryFrom ==
  /\ wireOf >= 0
  /\ last' = Call("CookieToken::try_from", wireOf, NoToken, wire, edits,
                  CookieToken_try_from(wire), 0)
  /\ UNCHANGED <<cookie, created, tokens, uses, wire, wireOf, edits>>

\* RequestToken::try_from(s)
RequestTryFrom ==
  /\ wireOf >= 0
  /\ last' = Call("RequestToken::try_from", wireOf, NoToken, wire, edits,
                  RequestToken_try_from(wire), 0)
  /\ UNCHANGED <<cookie, created, tokens, uses, wire, wireOf, edits>>

\* tokens are minted, encoded and decoded, the strings arriving as sent
NextRoundTrip ==
  \/ \E otp \in OtpSet : GenReqToken(otp)
  \/ CookieToString
  \/ \E i \in 1..Len(tokens) : RequestToString(i)
  \/ CookieTryFrom
  \/ RequestTryFrom

SpecRoundTrip == Init /\ [][NextRoundTrip]_vars

(***************************************************************************)
(* Strings altered on the way: what arrives is any valid &str.             *)
(***************************************************************************)
\* 'A', '=', '!' and a two-byte character
Replacements == {<<65>>, <<61>>, <<33>>, <<195, 169>>}

Replace(s, pos, r) ==
  [k \in 1..Len(s) |-> IF k >= pos /\ k < pos + Len(r) THEN r[k - pos + 1] ELSE s[k]]

Corrupt(pos, r) ==
  /\ wireOf >= 0
  /\ edits < MaxEdits
  /\ pos + Len(r) - 1 <= Len(wire)
  /\ IsUtf8(Replace(wire, pos, r))
  /\ wire' = Replace(wire, pos, r)
  /\ edits' = edits + 1
  /\ UNCHANGED <<cookie, created, tokens, uses, wireOf, last>>

Truncate ==
  /\ wireOf >= 0
  /\ edits < MaxEdits
  /\ Len(wire) > 0
  /\ IsUtf8(SubSeq(wire, 1, Len(wire) - 1))
  /\ wire' = SubSeq(wire, 1, Len(wire) - 1)
  /\ edits' = edits + 1
  /\ UNCHANGED <<cookie, created, tokens, uses, wireOf, last>>

Extend(r) ==
  /\ wireOf >= 0
  /\ edits < MaxEdits
  /\ wire' = wire \o r
  /\ edits' = edits + 1
  /\ UNCHANGED <<cookie, created, tokens, uses, wireOf, last>>

\* one token is encoded once, altered, and decoded
NextCodec ==
  \/ \E otp \in OtpSet : Len(tokens) = 0 /\ wireOf < 0 /\ GenReqToken(otp)
  \/ wireOf < 0 /\ CookieToString
  \/ \E i \in 1..Len(tokens) : wireOf < 0 /\ RequestToString(i)
  \/ \E pos \in 1..Len(wire), r \in Replacements : Corrupt(pos, r)
  \/ Truncate
  \/ \E r \in Replacements : Extend(r)
  \/ CookieTryFrom
  \/ RequestTryFrom

SpecCodec == Init /\ [][NextCodec]_vars
(***************************************************************************)
(* Properties.                                                             *)
(***************************************************************************)
IsOk(r) == r.tag = "Ok"
IsErr(r, e) == r.tag = "Err" /\ r.err = e

\* how many bytes of a and b differ
Differing(a, b) == Cardinality({k \in 1..Len(a) : a[k] # b[k]})

\* C1: verifying a request token against the CookieToken it was minted from
\* returns Ok(()), whatever one-time pad was drawn.
C1_MintedTokenVerifies ==
  (last.op = "verify_req_token" /\ last.token = tokens[last.src])
    => IsOk(last.res)

C1_Witness ==
  /\ last.op = "verify_req_token"
  /\ cookie # Zeros(TOKEN_LEN)
  /\ last.token.mask # last.token.otp
  /\ IsOk(last.res)

\* C2: a request token minted from a CookieToken with other bytes fails
\* verification with TokenMismatch, whatever one-time pad was drawn.
C2_ForeignTokenRejected ==
  (last.op = "verify_foreign" /\ last.input # cookie)
    => IsErr(last.res, TokenMismatch)

\* the two secrets differ in their last byte only
C2_Witness ==
  /\ last.op = "verify_foreign"
  /\ Differing(last.input, cookie) = 1
  /\ last.input[TOKEN_LEN] # cookie[TOKEN_LEN]
  /\ IsErr(last.res, TokenMismatch)

\* C3: a minted request token with one bit of otp or of mask flipped fails
\* verification with TokenMismatch.
C3_TamperedTokenRejected ==
  (/\ last.op = "verify_tampered"
   /\ Differing(last.token.otp, tokens[last.src].otp)
        + Differing(last.token.mask, tokens[last.src].mask) = 1)
    => IsErr(last.res, TokenMismatch)

\* the lowest bit of the last byte of mask was the one flipped
C3_Witness ==
  /\ last.op = "verify_tampered"
  /\ last.token.otp = tokens[last.src].otp
  /\ last.token.mask[TOKEN_LEN] = FlipBit(tokens[last.src].mask[TOKEN_LEN], 0)
  /\ IsErr(last.res, TokenMismatch)

\* C8: however many request tokens are outstanding and however often each
\* (or its decoded copy) was verified, the CookieToken keeps the bytes it was
\* created with and every token minted from it verifies.
C8_VerificationIsStateless ==
  /\ cookie = created
  /\ \A i \in 1..Len(tokens) : IsOk(verify_req_token(cookie, tokens[i]))
  /\ last.op \in {"verify_req_token", "verify_decoded"} => IsOk(last.res)

\* two tokens outstanding, one of them verified a second time, now as a
\* decoded copy
C8_Witness ==
  /\ Len(tokens) = 2
  /\ \E i \in 1..Len(tokens) : uses[i] >= 2
  /\ last.op = "verify_decoded"
  /\ IsOk(last.res)

\* C9: every verification makes exactly TOKEN_LEN byte comparisons, whether
\* the recovered secret matches or at whichever byte it first differs.
C9_ComparisonWorkIsFixed ==
  last.op \in {"verify_req_token", "verify_foreign", "verify_tampered"}
    => last.work = TOKEN_LEN

\* the recovered secret differs in its last byte only, and all bytes were
\* compared
C9_Witness ==
  /\ last.op = "verify_tampered"
  /\ last.token.otp[TOKEN_LEN] # tokens[last.src].otp[TOKEN_LEN]
  /\ IsErr(last.res, TokenMismatch)
  /\ last.work = TOKEN_LEN

\* C6: to_string of a CookieToken has ENCODED_LEN characters and try_from of
\* it succeeds with the same bytes.
C6_CookieRoundTrip ==
  (last.op = "CookieToken::try_from" /\ last.src = 0)
    => /\ Len(last.input) = ENCODED_LEN
       /\ IsOk(last.res)
       /\ last.res.val.data = cookie

C6_Witness ==
  /\ last.op = "CookieToken::try_from"
  /\ last.src = 0
  /\ cookie # Zeros(TOKEN_LEN)
  /\ IsOk(last.res)

\* C7: to_string of a RequestToken is the encoding of otp followed by that
\* of mask, 2 * ENCODED_LEN characters in all, and try_from of it succeeds
\* with the same otp and mask.
C7_RequestRoundTrip ==
  (last.op = "RequestToken::try_from" /\ last.src > 0)
    => /\ Len(last.input) = 2 * ENCODED_LEN
       /\ SubSeq(last.input, 1, ENCODED_LEN) = encode_config(tokens[last.src].otp)
       /\ SubSeq(last.input, ENCODED_LEN + 1, 2 * ENCODED_LEN)
            = encode_config(tokens[last.src].mask)
       /\ IsOk(last.res)
       /\ last.res.val.otp = tokens[last.src].otp
       /\ last.res.val.mask = tokens[last.src].mask

C7_Witness ==
  /\ last.op = "RequestToken::try_from"
  /\ last.src = 2
  /\ IsOk(last.res)
  /\ last.res.val.otp # last.res.val.mask

\* what a decoder expects of the length of its input
ExpectedLen(op) == IF op = "CookieToken::try_from" THEN ENCODED_LEN ELSE 2 * ENCODED_LEN

IsDecode(op) == op \in {"CookieToken::try_from", "RequestToken::try_from"}

InAlphabet(b) == decode_table(b) # INVALID_VALUE
InAlphabetOrPad(b) == InAlphabet(b) \/ b = PAD_BYTE

\* C4: decoding a string of the wrong length, or one of the right length that
\* holds a character outside the alphabet, returns Err(InvalidToken).
C4_MalformedInputRejected ==
  (/\ IsDecode(last.op)
   /\ \/ Len(last.input) # ExpectedLen(last.op)
      \/ \E k \in 1..Len(last.input) : ~InAlphabetOrPad(last.input[k]))
    => IsErr(last.res, InvalidToken)

\* the number of bytes a padded 44-character string stands for
ContentLen(s) ==
  3 * (Len(s) \div 4) - Cardinality({k \in (Len(s) - 1)..Len(s) : s[k] = PAD_BYTE})

\* a 44-character string of symbols, with padding at its end only
WellFormed(s) ==
  /\ Len(s) = ENCODED_LEN
  /\ \A k \in 1..Len(s) : InAlphabetOrPad(s[k])
  /\ \A k \in 1..(Len(s) - 2) : InAlphabet(s[k])
  /\ s[Len(s) - 1] = PAD_BYTE => s[Len(s)] = PAD_BYTE

\* the 44-character strings a decoder passes to base64
Halves(call) ==
  IF call.op = "CookieToken::try_from" THEN {call.input}
  ELSE {SubSeq(call.input, 1, ENCODED_LEN),
        SubSeq(call.input, ENCODED_LEN + 1, 2 * ENCODED_LEN)}

\* C5: a correctly sized input of alphabet characters whose content is not
\* TOKEN_LEN bytes long is rejected with Err(InvalidToken).
C5_WrongByteCountRejected ==
  (/\ IsDecode(last.op)
   /\ Len(last.input) = ExpectedLen(last.op)
   /\ \A h \in Halves(last) : WellFormed(h)
   /\ \E h \in Halves(last) : ContentLen(h) # TOKEN_LEN)
    => IsErr(last.res, InvalidToken)

\* C10: a string CookieToken::try_from accepts is the to_string of the token
\* it gives.
C10_AcceptedStringIsCanonical ==
  (last.op = "CookieToken::try_from" /\ IsOk(last.res))
    => CookieToken_to_string(last.res.val.data) = last.input
====
